---- MODULE Spec2Model ----
(***************************************************************************)
(* The DEPLOY_COLLECTION action handler of plugin-solana-agentkit          *)
(* (actions/deployCollection.ts).  One handler invocation is a process     *)
(* that runs from await to await; every step between two awaits is one     *)
(* action.  What the language model, the metadata server, the database     *)
(* adapter, the SDK and the caller's callback answer is chosen by the      *)
(* environment at each step.                                               *)
(* The interactive chat loop of agent.ts is modelled beside it, as a       *)
(* process of its own that moves at the timer, at each line of input and  *)
(* at each answer of agent.stream.                                         *)
(***************************************************************************)
EXTENDS Integers, Sequences, FiniteSets, TLC

VARIABLES
    message,          \* message[i]: the Memory handed to invocation i
    hasCallback,      \* hasCallback[i]: whether a callback was supplied
    runtime,          \* runtime[i]: the IAgentRuntime (settings, database adapter)
    pc,               \* pc[i]: where invocation i is suspended
    userMetrics,      \* the local userMetrics, once computed
    params,           \* the object the language model returned
    validatedParams,  \* the local validatedParams (its uri may be rewritten)
    metadataOk,       \* what validateMetadataUri returned
    deployArgs,       \* the arguments of every solanaAgentKit.deployCollection call
    sdkResult,        \* what deployCollection resolved to
    trace,            \* the calls made and their completions, in order
    cbLog,            \* every callback invocation: its payload, and whether it threw
    result,           \* "pending", "true", "false", or "threw" (the promise rejected)
    chatPc,           \* where runInteractiveChat and its question callback stand
    rlOpen,           \* whether the readline interface rl exists and is not closed
    pending,          \* the chunks the current stream has yet to yield
    inFlight,         \* agent.stream requests called and not yet finished
    prompts,          \* how many times rl.question has prompted
    lost,             \* lines entered while no question was pending
    chatTrace         \* what the chat loop did, in order

handlerVars == <<message, hasCallback, runtime, pc, userMetrics, params, validatedParams,
                 metadataOk, deployArgs, sdkResult, trace, cbLog, result>>

chatVars == <<chatPc, rlOpen, pending, inFlight, prompts, lost, chatTrace>>

vars == <<handlerVars, chatVars>>

----------------------------------------------------------------------------
(* Bounds of the model *)

\* the longest creators list the language model returns
MaxCreators == 1

----------------------------------------------------------------------------
(* Values *)

\* an optional value (undefined or a value) is a set of at most one element
None == {}
Some(x) == {x}
The(o) == CHOOSE x \in o : TRUE

MinRoyalty == 0
MaxRoyalty == 10000
MinPercentage == 0
MaxPercentage == 100
DefaultRoyalty == 500
FullPercentage == 100

\* the literal of lines 142: the built-in fallback metadata document
BuiltinDefaultUri ==
    "https://raw.githubusercontent.com/solana-developers/opos-asset/main/assets/CompressedCoil/metadata.json"

\* strings the URL parser accepts, among the strings of the model
WellFormedUrls ==
    { BuiltinDefaultUri,
      "https://arweave.net/123abc/metadata.json",
      "https://example.org/default.json" }

\* z.string().url(): the string parses as a URL
IsUrl(s) == s \in WellFormedUrls

\* JavaScript truthiness of an optional string
TruthyString(o) == o # None /\ The(o) # ""

\* the values the model takes for each field of the object the language
\* model returns (a missing field is None)
NameValues == { None, Some(""), Some("Test Collection") }
UriValues == { None, Some("not a url"), Some("https://arweave.net/123abc/metadata.json") }
RoyaltyValues ==
    { None, Some(MinRoyalty - 1), Some(MinRoyalty), Some(DefaultRoyalty),
      Some(MaxRoyalty), Some(MaxRoyalty + 1) }
PercentageValues == { MinPercentage - 1, 50, FullPercentage, MaxPercentage + 1 }
Creator == [address : {"CREATOR1"}, percentage : PercentageValues]
CreatorLists == UNION { [1..n -> Creator] : n \in 0..MaxCreators }
CreatorsValues == { None } \cup { Some(l) : l \in CreatorLists }

Candidates ==
    [name : NameValues, uri : UriValues,
     royaltyBasisPoints : RoyaltyValues, creators : CreatorsValues]

\* runtime settings
DefaultUriSettings == { "", "https://example.org/default.json", "not a url" }
PublicKeySettings == { "", "WALLET1" }
PrivateKeySettings == { "", "key1", "key2" }

Runtimes ==
    [hasDatabase : BOOLEAN,
     DEFAULT_NFT_METADATA_URI : DefaultUriSettings,
     SOLANA_PUBLIC_KEY : PublicKeySettings,
     SOLANA_PRIVATE_KEY : PrivateKeySettings]

Messages ==
    [text : { None, Some(""), Some("Create an NFT collection") },
     source : { None, Some("direct") }]

\* metadata documents: JSON null, or an object with some of the three fields
MetadataDocs ==
    { None } \cup
    { Some(d) : d \in [name : {"", "Coil"}, description : {"", "A coil"},
                       image : {"", "https://arweave.net/coil.png"}] }

\* what deployCollection resolves to
SdkResults == [collectionAddress : { None, Some("COLLECTION1") }, signature : {"SIG1"}]

\* thrown values: an Error whose message is a list of text pieces
Err(kind, msg) == [kind |-> kind, message |-> msg]

EmptyContentError == Err("Error", <<"Empty message content">>)
NoAdapterError ==
    Err("TypeError", <<"Cannot read properties of undefined (reading 'getMetrics')">>)
NoAddressError ==
    Err("TypeError", <<"Cannot read properties of undefined (reading 'toString')">>)
BadKeyError == Err("Error", <<"Invalid secret key">>)
MetricsError == Err("Error", <<"metrics lookup failed">>)
ModelError == Err("Error", <<"model call failed">>)
SdkError == Err("Error", <<"deploy transaction failed">>)
CallbackError == Err("Error", <<"callback failed">>)

----------------------------------------------------------------------------
(* The pure parts of the handler *)

\* line 98: !message.content.text && !message.content.source
IsEmptyContent(m) == ~TruthyString(m.text) /\ ~TruthyString(m.source)

\* lines 15-27: the issues collectionSchema.parse raises, in schema order
NameIssues(c) ==
    IF c.name = None THEN <<"name: Required">>
    ELSE IF The(c.name) = "" THEN <<"Name is required">>
    ELSE <<>>

UriIssues(c) ==
    IF c.uri = None THEN <<"uri: Required">>
    ELSE IF ~IsUrl(The(c.uri)) THEN <<"URI must be a valid URL">>
    ELSE <<>>

RoyaltyIssues(c) ==
    IF c.royaltyBasisPoints = None THEN <<>>
    ELSE IF The(c.royaltyBasisPoints) < MinRoyalty
         THEN <<"royaltyBasisPoints: Number must be greater than or equal to 0">>
    ELSE IF The(c.royaltyBasisPoints) > MaxRoyalty
         THEN <<"royaltyBasisPoints: Number must be less than or equal to 10000">>
    ELSE <<>>

PercentageOk(p) == p >= MinPercentage /\ p <= MaxPercentage

CreatorsIssues(c) ==
    IF c.creators = None THEN <<>>
    ELSE IF \E k \in DOMAIN The(c.creators) : ~PercentageOk(The(c.creators)[k].percentage)
         THEN <<"creators: percentage out of range">>
    ELSE <<>>

SchemaIssues(c) == NameIssues(c) \o UriIssues(c) \o RoyaltyIssues(c) \o CreatorsIssues(c)

\* line 130: collectionSchema.parse(params) returns (does not throw)
SchemaOk(c) == SchemaIssues(c) = <<>>

ZodError(c) == Err("ZodError", SchemaIssues(c))

\* line 69: !!(metadata.name && metadata.description && metadata.image);
\* reading a property of JSON null throws, which line 70 turns into false
MetadataValid(doc) ==
    /\ doc # None
    /\ The(doc).name # ""
    /\ The(doc).description # ""
    /\ The(doc).image # ""

\* the fallback without the literal of line 142
FallbackUri_SettingOnly(rt) == rt.DEFAULT_NFT_METADATA_URI

\* lines 141-142: runtime.getSetting("DEFAULT_NFT_METADATA_URI") || "<literal>"
FallbackUri(rt) ==
    IF rt.DEFAULT_NFT_METADATA_URI # "" THEN rt.DEFAULT_NFT_METADATA_URI
    ELSE BuiltinDefaultUri

\* lines 133-143: the uri after the metadata check
CheckedUri(uri, ok, rt) == IF ok THEN uri ELSE FallbackUri(rt)

\* lines 146-154: new SolanaAgentKit(privateKey, rpc, openAIKey) throws on a
\* key it cannot decode; otherwise the wallet is the key's public address
KeyDecodes(key) == key # ""
WalletAddress(key) ==
    IF key = "key1" THEN "WALLET1" ELSE IF key = "key2" THEN "WALLET2" ELSE ""

\* line 160: validatedParams.royaltyBasisPoints || 500
RoyaltyOrDefault(o) == IF o = None \/ The(o) = 0 THEN DefaultRoyalty ELSE The(o)

\* the creators passed on as they are, with no default
CreatorsOrDefault_AsGiven(o, wallet) == IF o = None THEN <<>> ELSE The(o)

\* lines 161-166: validatedParams.creators || [{ address: wallet, percentage: 100 }]
CreatorsOrDefault(o, wallet) ==
    IF o = None THEN << [address |-> wallet, percentage |-> FullPercentage] >>
    ELSE The(o)

\* lines 157-167: the argument of solanaAgentKit.deployCollection
DeployRequest(vp, wallet) ==
    [name |-> vp.name,
     uri |-> vp.uri,
     royaltyBasisPoints |-> RoyaltyOrDefault(vp.royaltyBasisPoints),
     creators |-> CreatorsOrDefault(vp.creators, wallet)]

\* lines 101-104
EmptyContentPayload ==
    [text |-> <<"Cannot process empty message content">>,
     error |-> Some(EmptyContentError.message),
     success |-> None, collectionAddress |-> None, name |-> None, signature |-> None]

\* lines 185-188
ErrorPayload(e) ==
    [text |-> <<"Failed to deploy collection: ">> \o e.message,
     error |-> Some(e.message),
     success |-> None, collectionAddress |-> None, name |-> None, signature |-> None]

\* lines 170-178; built only when the result has a collectionAddress
SuccessPayload(vp, r) ==
    [text |-> <<"Successfully deployed NFT collection \"", vp.name,
                "\"! Collection address: ", The(r.collectionAddress)>>,
     error |-> None,
     success |-> Some(TRUE),
     collectionAddress |-> Some(The(r.collectionAddress)),
     name |-> Some(vp.name),
     signature |-> Some(r.signature)]

\* line 130: what collectionSchema.parse returns for a candidate that passes
Parsed(c) ==
    [name |-> The(c.name), uri |-> The(c.uri),
     royaltyBasisPoints |-> c.royaltyBasisPoints, creators |-> c.creators]

\* lines 110-115: (await getMetrics(userId)) || { defaultRoyalty, defaultCreator }
MetricsOrDefault(found, rt) ==
    IF found # None THEN The(found)
    ELSE [defaultRoyalty |-> DefaultRoyalty, defaultCreator |-> rt.SOLANA_PUBLIC_KEY]

\* what the database adapter answers: no row, or the user's row
MetricsRows == { None, Some([defaultRoyalty |-> 250, defaultCreator |-> "WALLET9"]) }

\* lines 182-191, the catch block: the callback log after it; t: the callback throws
CaughtLog(log, has, e, t) ==
    IF has THEN Append(log, [payload |-> ErrorPayload(e), threw |-> t]) ELSE log

\* lines 182-191: the handler returns false, unless the callback throws in the catch block
CaughtResult(has, t) == IF has /\ t THEN "threw" ELSE "false"

CaughtTrace(tr, has) == IF has THEN Append(tr, "callback.error") ELSE tr

\* lines 98-107, the guard's report: the callback log after it (t1: the callback
\* throws in the guard, which the catch block then reports; t2: it throws there too)
GuardLog(has, t1, t2) ==
    IF ~has THEN <<>>
    ELSE IF ~t1 THEN << [payload |-> EmptyContentPayload, threw |-> FALSE] >>
    ELSE CaughtLog(<< [payload |-> EmptyContentPayload, threw |-> TRUE] >>,
                   TRUE, CallbackError, t2)

GuardResult(has, t1, t2) == IF has /\ t1 THEN CaughtResult(TRUE, t2) ELSE "false"

GuardTrace(has, t1) ==
    IF ~has THEN <<>>
    ELSE IF ~t1 THEN <<"callback.error">>
    ELSE <<"callback.error", "callback.error">>

----------------------------------------------------------------------------
(* The handler, one action per run between two awaits *)

Invocations == DOMAIN pc

Set(f, i, v) == [f EXCEPT ![i] = v]

\* the try block threw e after the events tr: lines 182-191
Fail(i, tr, e, t) ==
    /\ trace' = Set(trace, i, CaughtTrace(tr, hasCallback[i]))
    /\ cbLog' = Set(cbLog, i, CaughtLog(cbLog[i], hasCallback[i], e, t))
    /\ result' = Set(result, i, CaughtResult(hasCallback[i], t))
    /\ pc' = Set(pc, i, "done")

\* lines 94-112: the guard, then the call of databaseAdapter.getMetrics
Begin(i) ==
    /\ pc[i] = "start"
    /\ \E t1, t2 \in BOOLEAN :
         IF IsEmptyContent(message[i]) THEN
             /\ trace' = Set(trace, i, GuardTrace(hasCallback[i], t1))
             /\ cbLog' = Set(cbLog, i, GuardLog(hasCallback[i], t1, t2))
             /\ result' = Set(result, i, GuardResult(hasCallback[i], t1, t2))
             /\ pc' = Set(pc, i, "done")
         ELSE IF ~runtime[i].hasDatabase THEN
             Fail(i, trace[i], NoAdapterError, t1)
         ELSE
             /\ trace' = Set(trace, i, Append(trace[i], "getMetrics"))
             /\ pc' = Set(pc, i, "awaitMetrics")
             /\ UNCHANGED <<cbLog, result>>
    /\ UNCHANGED <<message, hasCallback, runtime, userMetrics, params,
                   validatedParams, metadataOk, deployArgs, sdkResult>>

\* lines 110-127: getMetrics settles; the context is composed and the model called
MetricsReturn(i) ==
    /\ pc[i] = "awaitMetrics"
    /\ \E threw, t \in BOOLEAN, found \in MetricsRows :
         IF threw THEN
             /\ Fail(i, Append(trace[i], "getMetrics.threw"), MetricsError, t)
             /\ UNCHANGED userMetrics
         ELSE
             /\ userMetrics' = Set(userMetrics, i, Some(MetricsOrDefault(found, runtime[i])))
             /\ trace' = Set(trace, i, trace[i] \o <<"getMetrics.ok", "generateObject">>)
             /\ pc' = Set(pc, i, "awaitModel")
             /\ UNCHANGED <<cbLog, result>>
    /\ UNCHANGED <<message, hasCallback, runtime, params,
                   validatedParams, metadataOk, deployArgs, sdkResult>>

\* ModelReturn with validateMetadataUri called but not awaited: its promise is
\* truthy, so no fallback is taken and the kit is built and deployCollection
\* called while the fetch is still in flight
ModelReturn_NoAwait(i) ==
    /\ pc[i] = "awaitModel"
    /\ \E threw, t \in BOOLEAN, c \in Candidates :
         IF threw THEN
             /\ Fail(i, Append(trace[i], "generateObject.threw"), ModelError, t)
             /\ UNCHANGED <<params, validatedParams, deployArgs>>
         ELSE IF ~SchemaOk(c) THEN
             /\ params' = Set(params, i, Some(c))
             /\ Fail(i, trace[i] \o <<"generateObject.ok", "parse.threw">>, ZodError(c), t)
             /\ UNCHANGED <<validatedParams, deployArgs>>
         ELSE
             /\ params' = Set(params, i, Some(c))
             /\ validatedParams' = Set(validatedParams, i, Some(Parsed(c)))
             /\ deployArgs' = Set(deployArgs, i,
                    Append(deployArgs[i],
                           DeployRequest(Parsed(c),
                                         WalletAddress(runtime[i].SOLANA_PRIVATE_KEY))))
             /\ trace' = Set(trace, i,
                    trace[i] \o <<"generateObject.ok", "parse.ok", "fetch",
                                  "newKit.ok", "deployCollection">>)
             /\ pc' = Set(pc, i, "awaitDeploy")
             /\ UNCHANGED <<cbLog, result>>
    /\ UNCHANGED <<message, hasCallback, runtime, userMetrics, metadataOk, sdkResult>>

\* lines 123-135: the model settles; its object is parsed and the metadata fetched
\* (line 134's !validatedParams.uri is false for every uri the schema lets through)
\* (cands: the objects the language model may return)
ModelReturnFrom(i, cands) ==
    /\ pc[i] = "awaitModel"
    /\ \E threw, t \in BOOLEAN, c \in cands :
         IF threw THEN
             /\ Fail(i, Append(trace[i], "generateObject.threw"), ModelError, t)
             /\ UNCHANGED <<params, validatedParams>>
         ELSE IF ~SchemaOk(c) THEN
             /\ params' = Set(params, i, Some(c))
             /\ Fail(i, trace[i] \o <<"generateObject.ok", "parse.threw">>, ZodError(c), t)
             /\ UNCHANGED validatedParams
         ELSE
             /\ params' = Set(params, i, Some(c))
             /\ validatedParams' = Set(validatedParams, i, Some(Parsed(c)))
             /\ trace' = Set(trace, i,
                             trace[i] \o <<"generateObject.ok", "parse.ok", "fetch">>)
             /\ pc' = Set(pc, i, "awaitFetch")
             /\ UNCHANGED <<cbLog, result>>
    /\ UNCHANGED <<message, hasCallback, runtime, userMetrics,
                   metadataOk, deployArgs, sdkResult>>

\* lines 123-135, with any object the language model may return
ModelReturn(i) == ModelReturnFrom(i, Candidates)

\* Proceed with validatedParams kept in one object that every invocation shares
\* (a module-level variable instead of the handler's local)
Proceed_SharedParams(i, tr, ok, t) ==
    LET vp == [The(validatedParams[i]) EXCEPT !.uri = CheckedUri(@, ok, runtime[i])]
        key == runtime[i].SOLANA_PRIVATE_KEY
        tr2 == IF ok THEN tr ELSE Append(tr, "fallback")
    IN  /\ metadataOk' = Set(metadataOk, i, Some(ok))
        /\ validatedParams' =
              [j \in Invocations |->
                  IF j = i \/ validatedParams[j] # None THEN Some(vp)
                  ELSE validatedParams[j]]
        /\ IF ~KeyDecodes(key) THEN
               /\ Fail(i, Append(tr2, "newKit.threw"), BadKeyError, t)
               /\ UNCHANGED deployArgs
           ELSE
               /\ deployArgs' = Set(deployArgs, i,
                      Append(deployArgs[i], DeployRequest(vp, WalletAddress(key))))
               /\ trace' = Set(trace, i, tr2 \o <<"newKit.ok", "deployCollection">>)
               /\ pc' = Set(pc, i, "awaitDeploy")
               /\ UNCHANGED <<cbLog, result>>

\* lines 133-167, after the metadata check returned ok: the uri is kept or replaced,
\* the kit is built and deployCollection is called
Proceed(i, tr, ok, t) ==
    LET vp == [The(validatedParams[i]) EXCEPT !.uri = CheckedUri(@, ok, runtime[i])]
        key == runtime[i].SOLANA_PRIVATE_KEY
        tr2 == IF ok THEN tr ELSE Append(tr, "fallback")
    IN  /\ metadataOk' = Set(metadataOk, i, Some(ok))
        /\ validatedParams' = Set(validatedParams, i, Some(vp))
        /\ IF ~KeyDecodes(key) THEN
               /\ Fail(i, Append(tr2, "newKit.threw"), BadKeyError, t)
               /\ UNCHANGED deployArgs
           ELSE
               /\ deployArgs' = Set(deployArgs, i,
                      Append(deployArgs[i], DeployRequest(vp, WalletAddress(key))))
               /\ trace' = Set(trace, i, tr2 \o <<"newKit.ok", "deployCollection">>)
               /\ pc' = Set(pc, i, "awaitDeploy")
               /\ UNCHANGED <<cbLog, result>>

\* lines 67-68 and 70-73: fetch(uri) settles; response.json() is called, or the
\* rejection is caught and the check returns false
FetchReturn(i) ==
    /\ pc[i] = "awaitFetch"
    /\ \E threw, t \in BOOLEAN :
         IF threw THEN
             Proceed(i, Append(trace[i], "fetch.threw"), FALSE, t)
         ELSE
             /\ trace' = Set(trace, i, trace[i] \o <<"fetch.ok", "json">>)
             /\ pc' = Set(pc, i, "awaitJson")
             /\ UNCHANGED <<validatedParams, metadataOk, deployArgs, cbLog, result>>
    /\ UNCHANGED <<message, hasCallback, runtime, userMetrics, params, sdkResult>>

\* lines 68-73: response.json() settles and the document is inspected
JsonReturn(i) ==
    /\ pc[i] = "awaitJson"
    /\ \E threw, t \in BOOLEAN, doc \in MetadataDocs :
         IF threw THEN Proceed(i, Append(trace[i], "json.threw"), FALSE, t)
         ELSE Proceed(i, Append(trace[i], "json.ok"), MetadataValid(doc), t)
    /\ UNCHANGED <<message, hasCallback, runtime, userMetrics, params, sdkResult>>

\* lines 169-181 when the success callback was called (t1: it threw, and the catch
\* block reported that; t2: the callback threw there too)
SuccessLog(log, vp, r, t1, t2) ==
    IF ~t1 THEN Append(log, [payload |-> SuccessPayload(vp, r), threw |-> FALSE])
    ELSE CaughtLog(Append(log, [payload |-> SuccessPayload(vp, r), threw |-> TRUE]),
                   TRUE, CallbackError, t2)

SuccessResult(t1, t2) == IF t1 THEN CaughtResult(TRUE, t2) ELSE "true"

SuccessTrace(tr, t1) ==
    IF t1 THEN tr \o <<"callback.success", "callback.error">>
    ELSE Append(tr, "callback.success")

\* lines 157-191: deployCollection settles and the outcome is reported
DeployReturn(i) ==
    /\ pc[i] = "awaitDeploy"
    /\ \E threw, t1, t2 \in BOOLEAN, r \in SdkResults :
         IF threw THEN
             /\ Fail(i, Append(trace[i], "deployCollection.threw"), SdkError, t1)
             /\ UNCHANGED sdkResult
         ELSE IF ~hasCallback[i] THEN
             /\ sdkResult' = Set(sdkResult, i, Some(r))
             /\ trace' = Set(trace, i, Append(trace[i], "deployCollection.ok"))
             /\ result' = Set(result, i, "true")
             /\ pc' = Set(pc, i, "done")
             /\ UNCHANGED cbLog
         ELSE IF r.collectionAddress = None THEN
             /\ sdkResult' = Set(sdkResult, i, Some(r))
             /\ Fail(i, Append(trace[i], "deployCollection.ok"), NoAddressError, t1)
         ELSE
             /\ sdkResult' = Set(sdkResult, i, Some(r))
             /\ trace' = Set(trace, i,
                    SuccessTrace(Append(trace[i], "deployCollection.ok"), t1))
             /\ cbLog' = Set(cbLog, i,
                    SuccessLog(cbLog[i], The(validatedParams[i]), r, t1, t2))
             /\ result' = Set(result, i, SuccessResult(t1, t2))
             /\ pc' = Set(pc, i, "done")
    /\ UNCHANGED <<message, hasCallback, runtime, userMetrics, params,
                   validatedParams, metadataOk, deployArgs>>

----------------------------------------------------------------------------
(* The interactive chat loop of agent.ts: runInteractiveChat, lines 41-84 *)

\* bounds of the chat loop
MaxTurns == 2
MaxChunks == 2
MaxLost == 1

\* a line of input is a sequence of characters
Lines ==
    { <<"e", "x", "i", "t">>, <<"E", "X", "I", "T">>, <<"E", "x", "i", "T">>,
      <<"e", "x", "i", "t", " ">>, <<"h", "i">>, <<>> }

\* String.prototype.toLowerCase, character by character
LowerChar(c) ==
    CASE c = "E" -> "e"
      [] c = "X" -> "x"
      [] c = "I" -> "i"
      [] c = "T" -> "t"
      [] OTHER -> c

ToLowerCase(line) == [k \in DOMAIN line |-> LowerChar(line[k])]

\* line 59
IsExit(line) == ToLowerCase(line) = <<"e", "x", "i", "t">>

\* the chunks a stream yields: with an agent key, with a tools key, or with neither
ChunkKinds == { "agent", "tools", "other" }

RECURSIVE SeqsUpTo(_, _)
SeqsUpTo(S, n) ==
    IF n = 0 THEN { <<>> }
    ELSE LET shorter == SeqsUpTo(S, n - 1)
         IN shorter \cup { Append(q, x) : q \in { r \in shorter : Len(r) = n - 1 }, x \in S }

Streams == SeqsUpTo(ChunkKinds, MaxChunks)

Ev(e) == [ev |-> e, line |-> <<>>]

Log(events) == chatTrace' = chatTrace \o events

\* lines 72-76: what the loop body does with one chunk
ChunkEvent(kind) ==
    IF kind = "agent" THEN Ev("write.agent")
    ELSE IF kind = "tools" THEN Ev("write.tools")
    ELSE Ev("skip")

\* lines 57-58, askQuestion: rl.question prompts on an open interface and
\* throws ERR_USE_AFTER_CLOSE on a closed one; failed is where the caller is then
AskQuestion(events, failed) ==
    IF rlOpen
    THEN /\ Log(events \o << Ev("prompt") >>)
         /\ prompts' = prompts + 1
         /\ chatPc' = "question"
    ELSE /\ Log(events \o << Ev("question.threw") >>)
         /\ prompts' = prompts
         /\ chatPc' = failed

\* lines 42-55: initializeAgent resolves, the interface is created and the
\* timer is set; or initializeAgent rejects and runInteractiveChat with it
InitReturn ==
    /\ chatPc = "init"
    /\ \/ /\ chatPc' = "timer"
          /\ rlOpen' = TRUE
          /\ Log(<< Ev("createInterface") >>)
       \/ /\ chatPc' = "initFailed"
          /\ Log(<< Ev("init.threw") >>)
          /\ UNCHANGED rlOpen
    /\ UNCHANGED <<pending, inFlight, prompts, lost>>

\* lines 50-55: the timer fires
TimerFires ==
    /\ chatPc = "timer"
    /\ AskQuestion(<< Ev("banner") >>, "crashed")
    /\ UNCHANGED <<rlOpen, pending, inFlight, lost>>

\* lines 44-47: the input ends (end of stdin, Ctrl-D, Ctrl-C), which closes the
\* interface; a pending question is then never answered
InputEnds ==
    /\ rlOpen
    /\ chatPc \in { "timer", "question", "awaitStream", "streaming" }
    /\ rlOpen' = FALSE
    /\ Log(<< Ev("input.end") >>)
    /\ UNCHANGED <<chatPc, pending, inFlight, prompts, lost>>

\* line 58: a line entered while no question is pending reaches no callback
LineUnasked ==
    /\ rlOpen
    /\ chatPc \in { "timer", "awaitStream", "streaming" }
    /\ lost < MaxLost
    /\ lost' = lost + 1
    /\ UNCHANGED <<chatPc, rlOpen, pending, inFlight, prompts, chatTrace>>

\* Answer with the callback registered for every line (rl.on("line", ...)
\* instead of rl.question): a line entered during a response starts a request too
Answer_WhileBusy(line) ==
    /\ rlOpen
    /\ chatPc \in { "question", "awaitStream", "streaming" }
    /\ IF IsExit(line)
       THEN /\ rlOpen' = FALSE
            /\ chatPc' = "returned"
            /\ Log(<< [ev |-> "input", line |-> line], Ev("close") >>)
            /\ UNCHANGED inFlight
       ELSE /\ prompts < MaxTurns
            /\ inFlight' = inFlight + 1
            /\ chatPc' = "awaitStream"
            /\ Log(<< [ev |-> "input", line |-> line], Ev("stream.call") >>)
            /\ UNCHANGED rlOpen
    /\ UNCHANGED <<pending, prompts, lost>>

\* lines 58-69: the question callback is called with the line entered
Answer(line) ==
    /\ rlOpen
    /\ chatPc = "question"
    /\ IF IsExit(line)
       THEN /\ rlOpen' = FALSE
            /\ chatPc' = "returned"
            /\ Log(<< [ev |-> "input", line |-> line], Ev("close") >>)
            /\ UNCHANGED inFlight
       ELSE /\ prompts < MaxTurns
            /\ inFlight' = inFlight + 1
            /\ chatPc' = "awaitStream"
            /\ Log(<< [ev |-> "input", line |-> line], Ev("stream.call") >>)
            /\ UNCHANGED rlOpen
    /\ UNCHANGED <<pending, prompts, lost>>

\* lines 64-72: agent.stream resolves to a stream, "Agent: " is written and the
\* loop waits for the first chunk; or agent.stream rejects, and the callback with it
StreamReturn ==
    /\ chatPc = "awaitStream"
    /\ \/ \E chunks \in Streams :
             /\ pending' = chunks
             /\ chatPc' = "streaming"
             /\ Log(<< Ev("stream.ok"), Ev("write.Agent:") >>)
             /\ UNCHANGED inFlight
       \/ /\ chatPc' = "rejected"
          /\ inFlight' = inFlight - 1
          /\ Log(<< Ev("stream.threw") >>)
          /\ UNCHANGED pending
    /\ UNCHANGED <<rlOpen, prompts, lost>>

\* lines 72-78: the stream yields its next chunk, which is written or skipped;
\* or the stream fails, and the callback with it
ChunkArrives ==
    /\ chatPc = "streaming"
    /\ \/ /\ pending # <<>>
          /\ pending' = Tail(pending)
          /\ Log(<< ChunkEvent(Head(pending)) >>)
          /\ UNCHANGED <<chatPc, inFlight>>
       \/ /\ chatPc' = "rejected"
          /\ inFlight' = inFlight - 1
          /\ pending' = <<>>
          /\ Log(<< Ev("stream.broke") >>)
    /\ UNCHANGED <<rlOpen, prompts, lost>>

\* lines 72-82: the stream is exhausted, the separator is printed and
\* askQuestion is called
StreamEnds ==
    /\ chatPc = "streaming"
    /\ pending = <<>>
    /\ inFlight' = inFlight - 1
    /\ AskQuestion(<< Ev("stream.end") >>, "rejected")
    /\ UNCHANGED <<rlOpen, pending, lost>>

\* the program before runInteractiveChat is called
InitChat ==
    /\ chatPc = "init"
    /\ rlOpen = FALSE
    /\ pending = <<>>
    /\ inFlight = 0
    /\ prompts = 0
    /\ lost = 0
    /\ chatTrace = <<>>

NextChat ==
    \/ InitReturn /\ UNCHANGED handlerVars
    \/ TimerFires /\ UNCHANGED handlerVars
    \/ InputEnds /\ UNCHANGED handlerVars
    \/ LineUnasked /\ UNCHANGED handlerVars
    \/ \E line \in Lines : Answer(line) /\ UNCHANGED handlerVars
    \/ StreamReturn /\ UNCHANGED handlerVars
    \/ ChunkArrives /\ UNCHANGED handlerVars
    \/ StreamEnds /\ UNCHANGED handlerVars

----------------------------------------------------------------------------
(* The specifications *)

\* the handler is called once for each invocation of ids, with any message,
\* any runtime, and with or without a callback
InitOf(ids) ==
    /\ message \in [ids -> Messages]
    /\ hasCallback \in [ids -> BOOLEAN]
    /\ runtime \in [ids -> Runtimes]
    /\ pc = [i \in ids |-> "start"]
    /\ userMetrics = [i \in ids |-> None]
    /\ params = [i \in ids |-> None]
    /\ validatedParams = [i \in ids |-> None]
    /\ metadataOk = [i \in ids |-> None]
    /\ deployArgs = [i \in ids |-> <<>>]
    /\ sdkResult = [i \in ids |-> None]
    /\ trace = [i \in ids |-> <<>>]
    /\ cbLog = [i \in ids |-> <<>>]
    /\ result = [i \in ids |-> "pending"]

Init == InitOf({1}) /\ InitChat

Next ==
    \/ \E i \in Invocations : Begin(i) /\ UNCHANGED chatVars
    \/ \E i \in Invocations : MetricsReturn(i) /\ UNCHANGED chatVars
    \/ \E i \in Invocations : ModelReturn(i) /\ UNCHANGED chatVars
    \/ \E i \in Invocations : FetchReturn(i) /\ UNCHANGED chatVars
    \/ \E i \in Invocations : JsonReturn(i) /\ UNCHANGED chatVars
    \/ \E i \in Invocations : DeployReturn(i) /\ UNCHANGED chatVars

Spec == Init /\ [][Next]_vars

\* Two invocations in flight at once, each suspended at its awaits while the
\* other runs: two messages with text, on two runtimes that differ in every
\* setting the handler reads, the model returning one of two collections
PairRuntimes ==
    { [hasDatabase |-> TRUE, DEFAULT_NFT_METADATA_URI |-> "",
       SOLANA_PUBLIC_KEY |-> "", SOLANA_PRIVATE_KEY |-> "key1"],
      [hasDatabase |-> TRUE, DEFAULT_NFT_METADATA_URI |-> "https://example.org/default.json",
       SOLANA_PUBLIC_KEY |-> "WALLET1", SOLANA_PRIVATE_KEY |-> "key2"] }

PairCandidates ==
    { [name |-> Some("Test Collection"),
       uri |-> Some("https://arweave.net/123abc/metadata.json"),
       royaltyBasisPoints |-> None, creators |-> None],
      [name |-> Some("Other Collection"),
       uri |-> Some("https://arweave.net/123abc/metadata.json"),
       royaltyBasisPoints |-> Some(DefaultRoyalty + 1),
       creators |-> Some(<< [address |-> "CREATOR1", percentage |-> FullPercentage] >>)],
      [name |-> Some(""), uri |-> None, royaltyBasisPoints |-> None, creators |-> None] }

InitPair ==
    /\ message = [i \in {1, 2} |-> [text |-> Some("Create an NFT collection"), source |-> None]]
    /\ hasCallback \in [{1, 2} -> BOOLEAN]
    /\ runtime \in [{1, 2} -> PairRuntimes]
    /\ pc = [i \in {1, 2} |-> "start"]
    /\ userMetrics = [i \in {1, 2} |-> None]
    /\ params = [i \in {1, 2} |-> None]
    /\ validatedParams = [i \in {1, 2} |-> None]
    /\ metadataOk = [i \in {1, 2} |-> None]
    /\ deployArgs = [i \in {1, 2} |-> <<>>]
    /\ sdkResult = [i \in {1, 2} |-> None]
    /\ trace = [i \in {1, 2} |-> <<>>]
    /\ cbLog = [i \in {1, 2} |-> <<>>]
    /\ result = [i \in {1, 2} |-> "pending"]
    /\ InitChat

NextPair ==
    \/ \E i \in Invocations : Begin(i) /\ UNCHANGED chatVars
    \/ \E i \in Invocations : MetricsReturn(i) /\ UNCHANGED chatVars
    \/ \E i \in Invocations : ModelReturnFrom(i, PairCandidates) /\ UNCHANGED chatVars
    \/ \E i \in Invocations : FetchReturn(i) /\ UNCHANGED chatVars
    \/ \E i \in Invocations : JsonReturn(i) /\ UNCHANGED chatVars
    \/ \E i \in Invocations : DeployReturn(i) /\ UNCHANGED chatVars

SpecPair == InitPair /\ [][NextPair]_vars

\* The chat program alone: no handler invocation exists
InitAlone == InitOf({}) /\ InitChat

SpecChat == InitAlone /\ [][NextChat]_vars

----------------------------------------------------------------------------
(* What the claims speak of *)

Done(i) == pc[i] = "done"

Count(tr, e) == Cardinality({ k \in DOMAIN tr : tr[k] = e })

\* the calls that leave the process
ExternalCalls == { "getMetrics", "generateObject", "fetch", "json", "deployCollection" }

Made(i, e) == Count(trace[i], e) > 0

IsErrorPayload(p) ==
    /\ p.error # None
    /\ p.text # <<>>
    /\ p.success = None

IsSuccessPayload(p) ==
    /\ p.success = Some(TRUE)
    /\ p.collectionAddress # None
    /\ p.error = None

Last(s) == s[Len(s)]

RoyaltyOutOfRange(c) ==
    /\ c.royaltyBasisPoints # None
    /\ \/ The(c.royaltyBasisPoints) < 0
       \/ The(c.royaltyBasisPoints) > 10000

----------------------------------------------------------------------------
(* C1 *)

\* C1: an invocation whose message has neither text nor source ends returning
\* false, its callback (when there is one) has received an error payload, and it
\* has made no model call, no metadata fetch, no database lookup and no SDK call.
C1_EmptyInputFails ==
    \A i \in Invocations :
        IsEmptyContent(message[i]) =>
            /\ \A e \in ExternalCalls : ~Made(i, e)
            /\ Done(i) =>
                  /\ result[i] = "false"
                  /\ hasCallback[i] =>
                        /\ cbLog[i] # <<>>
                        /\ IsErrorPayload(cbLog[i][1].payload)

----------------------------------------------------------------------------
(* C2 *)

\* C2: when the model's object has a royaltyBasisPoints outside [0, 10000], the
\* handler returns false and neither the metadata fetch nor the SDK
\* deployCollection call is made in that invocation.
C2_BadRoyaltyFails ==
    \A i \in Invocations :
        (params[i] # None /\ RoyaltyOutOfRange(The(params[i]))) =>
            /\ Done(i)
            /\ result[i] = "false"
            /\ validatedParams[i] = None
            /\ ~Made(i, "fetch")
            /\ ~Made(i, "deployCollection")
            /\ deployArgs[i] = <<>>

----------------------------------------------------------------------------
(* C3 *)

CheckFailed(i) == metadataOk[i] = Some(FALSE)

\* the success payload was handed to the callback and the callback returned
SuccessDelivered(i) ==
    /\ cbLog[i] # <<>>
    /\ IsSuccessPayload(Last(cbLog[i]).payload)
    /\ ~Last(cbLog[i]).threw

----------------------------------------------------------------------------
(* C4 *)

CreatorsOmitted(i) == deployArgs[i] # <<>> /\ The(params[i]).creators = None

\* C4 as stated: when the validated candidate has no creators, the request passed
\* to the SDK has exactly one creator, with percentage 100 and the
\* SOLANA_PUBLIC_KEY setting as its address.
C4_DefaultCreatorIsPublicKey ==
    \A i \in Invocations :
        CreatorsOmitted(i) =>
            deployArgs[i][1].creators =
                << [address |-> runtime[i].SOLANA_PUBLIC_KEY, percentage |-> 100] >>

\* C4, amended: when the validated candidate has no creators, the request passed
\* to the SDK has exactly one creator, with percentage 100 and, as its address,
\* the address of the wallet the SDK client derives from the SOLANA_PRIVATE_KEY
\* setting, whatever the SOLANA_PUBLIC_KEY setting holds.
C4_DefaultCreatorIsWallet ==
    \A i \in Invocations :
        CreatorsOmitted(i) =>
            /\ Len(deployArgs[i][1].creators) = 1
            /\ deployArgs[i][1].creators[1].percentage = 100
            /\ deployArgs[i][1].creators[1].address =
                  WalletAddress(runtime[i].SOLANA_PRIVATE_KEY)
            /\ deployArgs[i][1].creators[1].address # ""

\* C4's case: creators omitted, and the wallet is not what SOLANA_PUBLIC_KEY names
C4_Witness ==
    \E i \in Invocations :
        /\ CreatorsOmitted(i)
        /\ runtime[i].SOLANA_PUBLIC_KEY = "WALLET1"
        /\ deployArgs[i][1].creators = << [address |-> "WALLET2", percentage |-> 100] >>

----------------------------------------------------------------------------
(* C5 *)

FullySpecified(c) ==
    /\ c.name # None
    /\ c.uri # None
    /\ c.royaltyBasisPoints # None
    /\ c.creators # None

\* C5: a fully specified candidate that passes the schema and whose metadata
\* document passes the check reaches the SDK with its own name, uri,
\* royaltyBasisPoints (0 included) and creators.
C5_RoundTrip ==
    \A i \in Invocations :
        (/\ deployArgs[i] # <<>>
         /\ FullySpecified(The(params[i]))
         /\ metadataOk[i] = Some(TRUE)) =>
            deployArgs[i][1] =
                [name |-> The(The(params[i]).name),
                 uri |-> The(The(params[i]).uri),
                 royaltyBasisPoints |-> The(The(params[i]).royaltyBasisPoints),
                 creators |-> The(The(params[i]).creators)]

----------------------------------------------------------------------------
(* C6 *)

\* C6: every argument of deployCollection has a non-empty name, a uri that is a
\* well-formed URL (the substituted fallback included), royaltyBasisPoints in
\* [0, 10000] and a creators list whose percentages are in [0, 100].
C6_DeployArgsInRange ==
    \A i \in Invocations :
        \A k \in DOMAIN deployArgs[i] :
            LET a == deployArgs[i][k] IN
            /\ a.name # ""
            /\ a.uri \in WellFormedUrls
            /\ a.royaltyBasisPoints >= 0
            /\ a.royaltyBasisPoints <= 10000
            /\ \A n \in DOMAIN a.creators :
                  /\ a.creators[n].percentage >= 0
                  /\ a.creators[n].percentage <= 100

----------------------------------------------------------------------------
(* C7 *)

\* C7: an invocation that fails ends returning false, after the callback (when
\* there is one) was handed a text and an {error: message} payload; no
\* invocation ends with an exception leaving the handler.
C7_FailuresAreReported ==
    \A i \in Invocations :
        Done(i) =>
            /\ result[i] \in {"true", "false"}
            /\ (result[i] = "false" /\ hasCallback[i]) =>
                  /\ cbLog[i] # <<>>
                  /\ IsErrorPayload(Last(cbLog[i]).payload)

----------------------------------------------------------------------------
(* C8 *)

\* the runtime of the repository's test: getSetting alone, "" for every key but
\* the three credentials, and no database adapter
IsTestRuntime(rt) ==
    /\ ~rt.hasDatabase
    /\ rt.SOLANA_PUBLIC_KEY = ""
    /\ rt.DEFAULT_NFT_METADATA_URI = ""
    /\ rt.SOLANA_PRIVATE_KEY # ""

\* nothing the handler waited for failed, and the callback never threw
NothingFailed(i) ==
    /\ ~Made(i, "generateObject.threw")
    /\ ~Made(i, "parse.threw")
    /\ ~Made(i, "deployCollection.threw")
    /\ sdkResult[i] # None => The(sdkResult[i]).collectionAddress # None
    /\ \A k \in DOMAIN cbLog[i] : ~cbLog[i][k].threw

\* C8: with the test's runtime, a message with text, a callback, and model
\* extraction and SDK deployment that succeed, the handler returns true and the
\* callback receives success = true with a collectionAddress.
C8_TestScenarioSucceeds ==
    \A i \in Invocations :
        (/\ Done(i)
         /\ IsTestRuntime(runtime[i])
         /\ TruthyString(message[i].text)
         /\ hasCallback[i]
         /\ NothingFailed(i)) =>
            /\ result[i] = "true"
            /\ SuccessDelivered(i)

----------------------------------------------------------------------------
(* C9 *)

\* C9: an invocation that passes the guard makes exactly one model call, one that
\* passes the schema makes exactly one metadata fetch, none makes the model call,
\* the fetch or the SDK call twice, and none calls the database.
C9_OneCallEach ==
    \A i \in Invocations :
        /\ Count(trace[i], "generateObject") <= 1
        /\ Count(trace[i], "fetch") <= 1
        /\ Count(trace[i], "deployCollection") <= 1
        /\ Count(trace[i], "getMetrics") = 0
        /\ (Done(i) /\ ~IsEmptyContent(message[i])) =>
              Count(trace[i], "generateObject") = 1
        /\ (Done(i) /\ validatedParams[i] # None) => Count(trace[i], "fetch") = 1

----------------------------------------------------------------------------
(* C10 *)

\* the events that end a call
Completions(e) ==
    CASE e = "getMetrics" -> {"getMetrics.ok", "getMetrics.threw"}
      [] e = "generateObject" -> {"generateObject.ok", "generateObject.threw"}
      [] e = "fetch" -> {"fetch.ok", "fetch.threw"}
      [] e = "json" -> {"json.ok", "json.threw"}
      [] e = "deployCollection" -> {"deployCollection.ok", "deployCollection.threw"}

\* the call an invocation suspended at p waits for
AwaitedCall(p) ==
    CASE p = "awaitMetrics" -> "getMetrics"
      [] p = "awaitModel" -> "generateObject"
      [] p = "awaitFetch" -> "fetch"
      [] p = "awaitJson" -> "json"
      [] p = "awaitDeploy" -> "deployCollection"

CheckEvents == {"fetch", "fetch.ok", "fetch.threw", "json", "json.ok", "json.threw", "fallback"}
CheckEnds == {"fetch.threw", "json.ok", "json.threw"}

\* C10: within an invocation nothing happens while a call is in flight (a call is
\* either the last event, with the invocation suspended on it, or directly followed
\* by its completion); the schema is applied right after the model call returned;
\* the fetch starts right after the schema passed; the SDK call starts after the
\* metadata check ended and after any fallback; the success callback directly
\* follows the SDK call's successful return.
C10_StepsInOrder ==
    \A i \in Invocations :
        LET tr == trace[i] IN
        \A k \in DOMAIN tr :
            /\ tr[k] \in ExternalCalls =>
                  IF k = Len(tr) THEN pc[i] \in {"awaitMetrics", "awaitModel", "awaitFetch",
                                                "awaitJson", "awaitDeploy"}
                                      /\ AwaitedCall(pc[i]) = tr[k]
                  ELSE tr[k + 1] \in Completions(tr[k])
            /\ tr[k] \in {"parse.ok", "parse.threw"} =>
                  k > 1 /\ tr[k - 1] = "generateObject.ok"
            /\ tr[k] = "fetch" => k > 1 /\ tr[k - 1] = "parse.ok"
            /\ tr[k] = "deployCollection" =>
                  /\ \E j \in 1..(k - 1) : tr[j] \in CheckEnds
                  /\ \A j \in DOMAIN tr : tr[j] \in CheckEvents => j < k
            /\ tr[k] = "callback.success" =>
                  k > 1 /\ tr[k - 1] = "deployCollection.ok"

\* C10's case: an invocation went through every step and reported success
C10_Witness ==
    \E i \in Invocations :
        /\ Done(i)
        /\ result[i] = "true"
        /\ Made(i, "json.ok")
        /\ Made(i, "fallback")
        /\ Made(i, "callback.success")

----------------------------------------------------------------------------
(* C11 *)

\* what an invocation running alone holds in validatedParams, given the object
\* the model returned to it and the outcome of its own metadata check
ParamsAlone(i) ==
    IF metadataOk[i] = None THEN Parsed(The(params[i]))
    ELSE [Parsed(The(params[i])) EXCEPT
              !.uri = IF The(metadataOk[i]) THEN The(The(params[i]).uri)
                      ELSE FallbackUri(runtime[i])]

\* the request an invocation running alone passes to the SDK
RequestAlone(i) ==
    [name |-> The(The(params[i]).name),
     uri |-> ParamsAlone(i).uri,
     royaltyBasisPoints |-> RoyaltyOrDefault(The(params[i]).royaltyBasisPoints),
     creators |-> CreatorsOrDefault(The(params[i]).creators,
                                    WalletAddress(runtime[i].SOLANA_PRIVATE_KEY))]

\* the error an invocation running alone reports, given what failed in it
ErrorAlone(i) ==
    IF IsEmptyContent(message[i]) THEN CallbackError
    ELSE IF ~runtime[i].hasDatabase THEN NoAdapterError
    ELSE IF Made(i, "getMetrics.threw") THEN MetricsError
    ELSE IF Made(i, "generateObject.threw") THEN ModelError
    ELSE IF Made(i, "parse.threw") THEN ZodError(The(params[i]))
    ELSE IF Made(i, "newKit.threw") THEN BadKeyError
    ELSE IF Made(i, "deployCollection.threw") THEN SdkError
    ELSE IF The(sdkResult[i]).collectionAddress = None THEN NoAddressError
    ELSE CallbackError

\* C11: with two invocations interleaved at their awaits, each one's
\* validatedParams, the request it passes to the SDK, the payloads it hands to its
\* callback and the value it returns are those it has when it runs alone: they
\* are determined by its own message, runtime, model object, metadata check and
\* SDK result (a fallback taken by one never shows in the other).
C11_Independent ==
    \A i \in Invocations :
        /\ validatedParams[i] # None => validatedParams[i] = Some(ParamsAlone(i))
        /\ deployArgs[i] # <<>> => deployArgs[i] = << RequestAlone(i) >>
        /\ \A k \in DOMAIN cbLog[i] :
              IF cbLog[i][k].payload.success # None
              THEN cbLog[i][k].payload =
                       SuccessPayload(ParamsAlone(i), The(sdkResult[i]))
              ELSE IF IsEmptyContent(message[i]) /\ k = 1
              THEN cbLog[i][k].payload = EmptyContentPayload
              ELSE cbLog[i][k].payload = ErrorPayload(ErrorAlone(i))
        /\ Done(i) =>
              /\ result[i] = "true" <=>
                    /\ Made(i, "deployCollection.ok")
                    /\ hasCallback[i] => SuccessDelivered(i)
              /\ result[i] = "threw" <=> (cbLog[i] # <<>> /\ Last(cbLog[i]).threw)

\* C11's case: both invocations are suspended on their SDK call at once, one
\* after taking the fallback uri and the other with the uri of its own object
C11_Witness ==
    /\ Invocations = {1, 2}
    /\ pc[1] = "awaitDeploy"
    /\ pc[2] = "awaitDeploy"
    /\ CheckFailed(1)
    /\ metadataOk[2] = Some(TRUE)
    /\ deployArgs[1][1].uri = BuiltinDefaultUri
    /\ deployArgs[2][1].uri = "https://arweave.net/123abc/metadata.json"
    /\ deployArgs[1][1].name # deployArgs[2][1].name

----------------------------------------------------------------------------
(* C12 *)

\* the success payload was handed to the callback
SuccessHanded(i) ==
    \E k \in DOMAIN cbLog[i] : IsSuccessPayload(cbLog[i][k].payload)

ErrorHanded(i) ==
    \E k \in DOMAIN cbLog[i] : IsErrorPayload(cbLog[i][k].payload)

\* C12 as stated: in every invocation the callback is called at most once, never
\* with both a success payload and an error payload, and a finished invocation
\* returned true exactly when the SDK call completed and the success payload was
\* handed to the callback (where one was passed), also when the callback throws.
C12_OneAgreeingCallback ==
    \A i \in Invocations :
        /\ Len(cbLog[i]) <= 1
        /\ ~(SuccessHanded(i) /\ ErrorHanded(i))
        /\ Done(i) =>
              (result[i] = "true" <=>
                  /\ Made(i, "deployCollection.ok")
                  /\ hasCallback[i] => SuccessHanded(i))

----------------------------------------------------------------------------
(* C13 *)

\* "exit" in any letter case, letter by letter
IsExitAnyCase(line) ==
    /\ Len(line) = 4
    /\ line[1] \in { "e", "E" }
    /\ line[2] \in { "x", "X" }
    /\ line[3] \in { "i", "I" }
    /\ line[4] \in { "t", "T" }

At(e) == { k \in DOMAIN chatTrace : chatTrace[k].ev = e }

\* at most one agent.stream request is in flight
OneStreamAtATime == inFlight <= 1

\* a prompt is issued by the banner or right after a stream was exhausted, and
\* while a question is pending no chunk and no request is outstanding
PromptAfterChunks ==
    /\ \A k \in At("prompt") : k > 1 /\ chatTrace[k - 1].ev \in { "banner", "stream.end" }
    /\ \A k \in At("stream.call") : \E j \in At("prompt") : j < k
    /\ chatPc = "question" => (pending = <<>> /\ inFlight = 0)
    /\ chatPc = "streaming" => inFlight = 1

\* once exit is entered the interface is closed, and no prompt and no request follows
NothingAfterExit ==
    \A k \in At("input") :
        IsExitAnyCase(chatTrace[k].line) =>
            /\ ~rlOpen
            /\ k < Len(chatTrace) /\ chatTrace[k + 1].ev = "close"
            /\ \A j \in At("prompt") \cup At("stream.call") : j < k

\* an input other than exit starts a request
OtherInputStreams ==
    \A k \in At("input") :
        ~IsExitAnyCase(chatTrace[k].line) =>
            k < Len(chatTrace) /\ chatTrace[k + 1].ev = "stream.call"

InputEnded(k) == \E j \in At("input.end") : j < k

\* C13 as stated: one request at a time, prompts only after the whole response,
\* nothing after exit, and every stream that completes is followed by the next
\* prompt.
C13_AsStated ==
    /\ OneStreamAtATime
    /\ PromptAfterChunks
    /\ NothingAfterExit
    /\ OtherInputStreams
    /\ \A k \in At("stream.end") :
          k < Len(chatTrace) /\ chatTrace[k + 1].ev = "prompt"

\* C13: one request at a time, prompts only after the whole response, nothing
\* after exit, and every stream that completes while the input has not ended is
\* followed at once by the next prompt; when the input ended during the
\* response, rl.question throws on the closed interface and no prompt follows.
C13_ChatLoop ==
    /\ OneStreamAtATime
    /\ PromptAfterChunks
    /\ NothingAfterExit
    /\ OtherInputStreams
    /\ \A k \in At("stream.end") :
          /\ k < Len(chatTrace)
          /\ chatTrace[k + 1].ev = (IF InputEnded(k) THEN "question.threw" ELSE "prompt")

\* C13's case: a response of two chunks was written while a line was entered
\* and lost, the next prompt followed, and EXIT was entered at it
C13_Witness ==
    /\ \E k \in At("stream.end") :
          /\ chatTrace[k - 1].ev = "write.tools"
          /\ chatTrace[k - 2].ev = "write.agent"
          /\ chatTrace[k + 1].ev = "prompt"
    /\ lost = 1
    /\ \E k \in At("input") : chatTrace[k].line = <<"E", "X", "I", "T">>
    /\ chatPc = "returned"
    /\ ~rlOpen

====
